---- MODULE Spec2Model ----
\* Talk World voice services: the Whisper speech-to-text server, the Coqui
\* text-to-speech server and the M2M100 translation server.  A behaviour is
\* the life of one server process: the module-level start-up code, then the
\* Flask request handlers run by the worker threads of app.run().
EXTENDS Integers, Sequences, FiniteSets, TLC

\* ---------------------------------------------------------------------
\* Values
\* ---------------------------------------------------------------------

\* A key that is not in the JSON object / form / files of the request.
Absent == "<absent>"
\* Python None (JSON null).
Null == "<null>"
\* The value of a local that was never assigned.
Unset == "<unset>"

Services == {"stt", "tts", "translate"}

\* Worker threads of the Flask development server (threaded by default).
Threads == {"t1", "t2"}

\* Names tempfile.NamedTemporaryFile can hand out; a name in use is never
\* handed out again while the file exists.
MaxTmpFiles == 3
TmpNames == 1..MaxTmpFiles

\* Installer runs followed, one after the other.
MaxRuns == 3

\* ---------------------------------------------------------------------
\* Language tables
\* ---------------------------------------------------------------------

\* A lookup that lets an unknown key through instead of the default.
MapGetPassThrough(m, k, d) == IF k \in DOMAIN m THEN m[k] ELSE k

\* dict.get(key, default)
MapGet(m, k, d) == IF k \in DOMAIN m THEN m[k] ELSE d

TtsLanguages ==
    {"en", "es", "fr", "de", "it", "pt", "pl", "tr", "ru", "nl", "cs", "ar",
     "zh-cn", "ja", "hu", "ko", "hi"}

\* LANGUAGE_MAP of coqui-tts-server.py
TTS_LANGUAGE_MAP == [k \in TtsLanguages |-> k]

M2M100Canonical ==
    {"en", "es", "fr", "de", "it", "pt", "ru", "zh", "ja", "ko", "ar", "hi",
     "tr", "nl", "pl", "sv", "da", "no", "fi", "cs", "hu", "ro", "bg", "hr",
     "sk", "sl", "et", "lv", "lt", "mt", "ga", "cy", "eu", "ca", "gl", "is",
     "mk", "sq", "sr", "bs", "me", "lb"}

\* A table one of whose values is not a key of the table.
LANGUAGE_MAP_Script ==
    [k \in M2M100Canonical |-> k] @@
    ("pt-br" :> "pt") @@ ("pt-pt" :> "pt") @@
    ("zh-cn" :> "zh-Hans") @@ ("zh-tw" :> "zh-Hant")

\* LANGUAGE_MAP of m2m100-translation-server.py
LANGUAGE_MAP ==
    [k \in M2M100Canonical |-> k] @@
    ("pt-br" :> "pt") @@ ("pt-pt" :> "pt") @@
    ("zh-cn" :> "zh") @@ ("zh-tw" :> "zh")

\* LANGUAGE_MAP.values()
LanguageMapValues == {LANGUAGE_MAP[k] : k \in DOMAIN LANGUAGE_MAP}

\* Python truthiness of an optional string taken from the request.
Truthy(v) == v \notin {Absent, Null, ""}

\* data.get(key, default): the default only replaces a missing key.
DataGet(v, d) == IF v = Absent THEN d ELSE v

\* ---------------------------------------------------------------------
\* Requests
\* ---------------------------------------------------------------------

\* What request.get_json() meets in the body (flask>=2.3.0):
\*   "nojson"    no body / content type is not JSON: raises 415
\*   "malformed" JSON content type, body does not parse: raises 400
\*   "null"      the JSON document null: returns None
\*   "number"    a JSON number: returns an int
\*   "object"    a JSON object: returns a dict
JsonBodies == {"nojson", "malformed", "null", "number", "object"}

TextValues == {Absent, Null, "", "Hello"}

TtsRequests ==
    [body : JsonBodies \ {"object"}]
    \cup
    [body : {"object"}, text : TextValues,
     language_id : {Absent, "zh-cn", "xx"},
     speaker_wav : {Absent, "", "ref.wav"},
     speaker : {Absent, "", "Ana"},
     speed : {Absent}]

TranslateRequests ==
    [endpoint : {"translate"}, body : JsonBodies \ {"object"}]
    \cup
    [endpoint : {"translate"}, body : {"object"}, text : TextValues,
     source_language : {Absent, Null, "", "fr", "pt-br"},
     target_language : {Absent, "pt", "xx"}]

DetectRequests ==
    [endpoint : {"detect"}, body : JsonBodies \ {"object"}]
    \cup
    [endpoint : {"detect"}, body : {"object"}, text : TextValues]

\* audio: the filename of the "audio" part of the upload, Absent without one.
SttRequests ==
    [audio : {Absent, "", "a.wav"}, language : {Absent, "", "pt"}]

NoReq == [body |-> "<none>"]

\* What langdetect.detect(text) can do on a non-empty string: raise, or
\* return a code (in the table, or not in it).
DetectResults == {"<raise>", "en", "pt", "zh-cn", "tl"}

\* Text the translation model can produce (it may echo its input).
ModelOutputs == {"Ola", "Hello"}

\* tts.speakers after loading: the attribute may be missing, or empty.
SpeakerStates ==
    {[has |-> FALSE, list |-> << >>],
     [has |-> TRUE, list |-> << >>],
     [has |-> TRUE, list |-> <<"Claribel", "Ana">>]}

\* ---------------------------------------------------------------------
\* Responses
\* ---------------------------------------------------------------------

NoData == [none |-> ""]

\* return jsonify({"error": msg}), 400
Resp400(msg) ==
    [status |-> 400, kind |-> "error", error |-> msg, exc |-> "", data |-> NoData]

\* A 500 whose message leaves the exception out.
Resp500NoDetail(prefix, e) ==
    [status |-> 500, kind |-> "error", error |-> prefix, exc |-> "", data |-> NoData]

\* return jsonify({"error": f"{prefix}: {str(e)}"}), 500
Resp500(prefix, e) ==
    [status |-> 500, kind |-> "error", error |-> prefix, exc |-> e, data |-> NoData]

\* return jsonify(data)
RespJson(d) ==
    [status |-> 200, kind |-> "json", error |-> "", exc |-> "", data |-> d]

\* return send_file(path, mimetype="audio/wav")
RespAudio(path) ==
    [status |-> 200, kind |-> "audio", error |-> "", exc |-> "",
     data |-> [file |-> path, mimetype |-> "audio/wav"]]

\* An exception that leaves the view function: Flask answers with its own
\* 500 page, the handler produced nothing.
Unhandled(prefix, e) ==
    [status |-> 500, kind |-> "unhandled", error |-> "", exc |-> e, data |-> NoData]

\* The outermost "except Exception as e" clause of a handler.
OuterExcept(prefix, e) == Resp500(prefix, e)

\* ---------------------------------------------------------------------
\* Request parsing
\* ---------------------------------------------------------------------

\* request.get_json(): the exception it raises, "" when it returns.
GetJsonRaises(body) ==
    CASE body = "nojson" -> "415 Unsupported Media Type"
      [] body = "malformed" -> "400 Bad Request"
      [] OTHER -> ""

\* if not data or "text" not in data: "reject" is the 400 branch, "raise"
\* the TypeError of the "in" test on an int, "pass" falls through.
RequireText(r) ==
    CASE r.body = "null" -> "reject"
      [] r.body = "number" -> "raise"
      [] r.body = "object" -> IF r.text = Absent THEN "reject" ELSE "pass"

\* text[:50] in the log line: None is not subscriptable.
SliceRaises(text) == text = Null

\* ---------------------------------------------------------------------
\* Temporary files
\* ---------------------------------------------------------------------

\* A cleanup that removes nothing.
UnlinkKeeps(files, path) == files

\* os.unlink(path) inside try/except: pass
Unlink(files, path) == files \ {path}

FreeNames(files) == TmpNames \ files

\* The name NamedTemporaryFile picks: one that is not in use.  Names are
\* interchangeable, so the lowest free one stands for the fresh name.
NewTmp(files) == CHOOSE n \in FreeNames(files) : \A m \in FreeNames(files) : n <= m

\* ---------------------------------------------------------------------
\* State
\* ---------------------------------------------------------------------

VARIABLES
    svc,          \* which server script this process runs
    proc,         \* "boot", "serving" or "dead"
    main,         \* __name__ == "__main__": the file is run as a script
    model,        \* the model handle: Null or "loaded"
    tts,          \* the speakers attribute of the loaded TTS object
    fs,           \* temporary files that exist
    src_lang,     \* tokenizer.src_lang, shared by all threads
    pc,           \* per thread: where its handler stands
    req,          \* per thread: the request being handled
    loc,          \* per thread: the handler's locals
    calls,        \* per thread: model invocations made for the request
    out,          \* per thread: responses the handler returned
    disk,         \* the files the installers write into their directory
    inst,         \* the installer step that runs next ("idle": none runs)
    runs          \* the installer runs that have ended, oldest first

\* The installers' part of the state and the servers' part.
installer == <<disk, inst, runs>>

server == <<svc, proc, main, model, tts, fs, src_lang, pc, req, loc, calls, out>>

vars == <<installer, server>>

\* tmp: the temporary file this request created (0: none);
\* path: temp_path / output_path (0: never assigned);
\* enc: the source language the tokenizer encoded the text under;
\* detect: what langdetect's detect did (Unset: not called);
\* detected: what detect_language returned (Unset: not called);
\* model_exc: the exception the model call raised ("": it returned);
\* events: what the text-to-speech handler did to its output file, in order.
NoLoc ==
    [tmp |-> 0, path |-> 0, text |-> Unset, source_lang |-> Unset,
     target_lang |-> Unset, enc |-> Unset, pending |-> Resp400(Unset),
     detect |-> Unset, detected |-> Unset, model_exc |-> Unset,
     events |-> << >>]

\* The installation directory before any installer has run.
NoDisk == [requirements |-> << >>, servers |-> {}, bat |-> {}, sh |-> {}]

Init ==
    /\ disk = NoDisk
    /\ inst = "idle"
    /\ runs = << >>
    /\ svc \in Services
    /\ proc = "boot"
    /\ main \in (IF svc = "translate" THEN BOOLEAN ELSE {TRUE})
    /\ model = Null
    /\ tts = [has |-> FALSE, list |-> << >>]
    /\ fs = {}
    /\ src_lang = Unset
    /\ pc = [t \in Threads |-> "idle"]
    /\ req = [t \in Threads |-> NoReq]
    /\ loc = [t \in Threads |-> NoLoc]
    /\ calls = [t \in Threads |-> << >>]
    /\ out = [t \in Threads |-> << >>]

\* ---------------------------------------------------------------------
\* Start-up
\* ---------------------------------------------------------------------

\* whisper.load_model at import: the listener starts after it, an exception
\* ends the process.  (The speech servers load their model at import, so
\* being imported by a WSGI host makes no difference to them: main is TRUE.)
SttLoadModel ==
    /\ svc = "stt" /\ proc = "boot"
    /\ \E ok \in BOOLEAN :
        IF ok THEN proc' = "serving" /\ model' = "loaded"
        ELSE proc' = "dead" /\ model' = model
    /\ UNCHANGED <<installer, svc, main, tts, fs, src_lang, pc, req, loc, calls, out>>

\* TTS(...).to(device) at import, inside try/except that re-raises.
TtsLoadModel ==
    /\ svc = "tts" /\ proc = "boot"
    /\ \/ /\ proc' = "serving" /\ model' = "loaded"
          /\ tts' \in SpeakerStates
       \/ /\ proc' = "dead" /\ UNCHANGED <<model, tts>>
    /\ UNCHANGED <<installer, svc, main, fs, src_lang, pc, req, loc, calls, out>>

\* A start-up that goes on to app.run when load_model() returned False.
TrMainServesAnyway ==
    /\ svc = "translate" /\ proc = "boot" /\ main
    /\ \E ok \in BOOLEAN :
        /\ proc' = "serving"
        /\ model' = IF ok THEN "loaded" ELSE Null
    /\ UNCHANGED <<installer, svc, main, tts, fs, src_lang, pc, req, loc, calls, out>>

\* Run as a script: load_model() decides between app.run and the exit path
\* (sys.exit without "import sys" raises NameError; the process ends too).
TrMain ==
    /\ svc = "translate" /\ proc = "boot" /\ main
    /\ \E ok \in BOOLEAN :
        IF ok THEN proc' = "serving" /\ model' = "loaded"
        ELSE proc' = "dead" /\ model' = Null
    /\ UNCHANGED <<installer, svc, main, tts, fs, src_lang, pc, req, loc, calls, out>>

\* Imported by a WSGI host (__name__ is not "__main__"): load_model is never
\* called, the app serves with model = None.
TrImported ==
    /\ svc = "translate" /\ proc = "boot" /\ ~main
    /\ proc' = "serving" /\ model' = Null
    /\ UNCHANGED <<installer, svc, main, tts, fs, src_lang, pc, req, loc, calls, out>>

\* A handler returns r and is finished.
Return(t, r) ==
    /\ out' = [out EXCEPT ![t] = Append(@, r)]
    /\ pc' = [pc EXCEPT ![t] = "done"]

\* The HTTP layer sends the response; the thread takes the next request.
Reply(t) ==
    /\ pc[t] = "done"
    /\ pc' = [pc EXCEPT ![t] = "idle"]
    /\ req' = [req EXCEPT ![t] = NoReq]
    /\ loc' = [loc EXCEPT ![t] = NoLoc]
    /\ calls' = [calls EXCEPT ![t] = << >>]
    /\ out' = [out EXCEPT ![t] = << >>]
    /\ UNCHANGED <<installer, svc, proc, main, model, tts, fs, src_lang>>

\* ---------------------------------------------------------------------
\* Speech-to-text: POST /api/transcribe
\* ---------------------------------------------------------------------

\* Options that pass the language hint on whatever it is.
SttOptionsAlwaysLanguage(language) == [fp16 |-> FALSE, language |-> language]

\* options = {"fp16": False}; if language: options["language"] = language
SttOptions(language) ==
    [fp16 |-> FALSE, language |-> IF Truthy(language) THEN language ELSE Absent]

\* A handler that creates the temporary file before it validates.
SttBeginFileFirst(t) ==
    /\ svc = "stt" /\ proc = "serving" /\ pc[t] = "idle"
    /\ \E r \in SttRequests, n \in FreeNames(fs), saved \in BOOLEAN :
        /\ n = NewTmp(fs)
        /\ req' = [req EXCEPT ![t] = r]
        /\ fs' = fs \cup {n}
        /\ IF r.audio = Absent
             THEN /\ Return(t, Resp400("Audio file is required"))
                  /\ loc' = [loc EXCEPT ![t].tmp = n]
           ELSE IF r.audio = ""
             THEN /\ Return(t, Resp400("No audio file selected"))
                  /\ loc' = [loc EXCEPT ![t].tmp = n]
           ELSE IF saved
             THEN /\ loc' = [loc EXCEPT ![t].tmp = n, ![t].path = n]
                  /\ pc' = [pc EXCEPT ![t] = "transcribe"]
                  /\ out' = out
           ELSE /\ loc' = [loc EXCEPT ![t].tmp = n]
                /\ Return(t, OuterExcept("Request processing failed",
                                         "save error"))
    /\ UNCHANGED <<installer, svc, proc, main, model, tts, src_lang, calls>>

\* Validation, then the temporary file is created and the upload saved into
\* it.  A failing save leaves the "with" block as an exception: the file was
\* created with delete=False, temp_path is not assigned and the inner
\* try/finally is not entered.
SttBegin(t) ==
    /\ svc = "stt" /\ proc = "serving" /\ pc[t] = "idle"
    /\ \E r \in SttRequests :
        /\ req' = [req EXCEPT ![t] = r]
        /\ IF r.audio = Absent
             THEN /\ Return(t, Resp400("Audio file is required"))
                  /\ UNCHANGED <<fs, loc>>
           ELSE IF r.audio = ""
             THEN /\ Return(t, Resp400("No audio file selected"))
                  /\ UNCHANGED <<fs, loc>>
           ELSE \E n \in FreeNames(fs), saved \in BOOLEAN :
                  /\ n = NewTmp(fs)
                  /\ fs' = fs \cup {n}
                  /\ IF saved
                       THEN /\ loc' = [loc EXCEPT ![t].tmp = n, ![t].path = n]
                            /\ pc' = [pc EXCEPT ![t] = "transcribe"]
                            /\ out' = out
                       ELSE /\ loc' = [loc EXCEPT ![t].tmp = n]
                            /\ Return(t, OuterExcept("Request processing failed",
                                                     "save error"))
    /\ UNCHANGED <<installer, svc, proc, main, model, tts, src_lang, calls>>

\* model.transcribe(temp_path, **options) inside the inner try: the return
\* value of the try or of its except clause waits for the finally block.
SttTranscribe(t) ==
    /\ svc = "stt" /\ pc[t] = "transcribe"
    /\ calls' = [calls EXCEPT ![t] =
                   Append(@, [fn |-> "transcribe", path |-> loc[t].path,
                              options |-> SttOptions(req[t].language)])]
    /\ \E ok \in BOOLEAN :
         loc' = [loc EXCEPT
                   ![t].model_exc = IF ok THEN "" ELSE "model error",
                   ![t].pending =
                   IF ok
                     THEN RespJson([text |-> "ola", language |-> "pt",
                                    segments |-> "segments"])
                     ELSE Resp500("Transcription failed", "model error")]
    /\ pc' = [pc EXCEPT ![t] = "finally"]
    /\ UNCHANGED <<installer, svc, proc, main, model, tts, fs, src_lang, req, out>>

\* finally: os.unlink(temp_path); then the pending return takes effect.
SttFinally(t) ==
    /\ svc = "stt" /\ pc[t] = "finally"
    /\ fs' = Unlink(fs, loc[t].path)
    /\ Return(t, loc[t].pending)
    /\ UNCHANGED <<installer, svc, proc, main, model, tts, src_lang, req, loc, calls>>

\* ---------------------------------------------------------------------
\* Text-to-speech: POST /api/tts
\* ---------------------------------------------------------------------

\* hasattr(tts, 'speakers') and tts.speakers
HasSpeakers(m) == m.has /\ Len(m.list) > 0

\* The chain with its first two tests swapped: speaker before speaker_wav.
TtsCallSpeakerFirst(text, speaker_wav, speaker, language, path, speed, m) ==
    [fn |-> "tts_to_file", text |-> text,
     speaker_wav |-> IF ~Truthy(speaker) /\ Truthy(speaker_wav)
                       THEN speaker_wav ELSE Absent,
     speaker |-> IF Truthy(speaker) THEN speaker
                 ELSE IF ~Truthy(speaker_wav) /\ HasSpeakers(m) THEN m.list[1]
                 ELSE Absent,
     language |-> language, file_path |-> path, speed |-> speed]

\* The if / elif / else chain that picks the tts_to_file call:
\* the keyword arguments of the call made (Absent: argument not passed).
TtsCall(text, speaker_wav, speaker, language, path, speed, m) ==
    IF Truthy(speaker_wav)
      THEN [fn |-> "tts_to_file", text |-> text, speaker_wav |-> speaker_wav,
            speaker |-> Absent, language |-> language, file_path |-> path,
            speed |-> speed]
    ELSE IF Truthy(speaker)
      THEN [fn |-> "tts_to_file", text |-> text, speaker_wav |-> Absent,
            speaker |-> speaker, language |-> language, file_path |-> path,
            speed |-> speed]
    ELSE IF HasSpeakers(m)
      THEN [fn |-> "tts_to_file", text |-> text, speaker_wav |-> Absent,
            speaker |-> m.list[1], language |-> language, file_path |-> path,
            speed |-> speed]
    ELSE [fn |-> "tts_to_file", text |-> text, speaker_wav |-> Absent,
          speaker |-> Absent, language |-> language, file_path |-> path,
          speed |-> speed]

\* Parsing and validation up to the creation of the output file.
TtsBegin(t) ==
    /\ svc = "tts" /\ proc = "serving" /\ pc[t] = "idle"
    /\ \E r \in TtsRequests :
        /\ req' = [req EXCEPT ![t] = r]
        /\ IF GetJsonRaises(r.body) # ""
             THEN /\ Return(t, OuterExcept("Request processing failed",
                                           GetJsonRaises(r.body)))
                  /\ UNCHANGED <<fs, loc>>
           ELSE IF RequireText(r) = "reject"
             THEN /\ Return(t, Resp400("Text is required"))
                  /\ UNCHANGED <<fs, loc>>
           ELSE IF RequireText(r) = "raise" \/ SliceRaises(r.text)
             THEN /\ Return(t, OuterExcept("Request processing failed",
                                           "TypeError"))
                  /\ UNCHANGED <<fs, loc>>
           ELSE \E n \in FreeNames(fs) :
                  /\ n = NewTmp(fs)
                  /\ fs' = fs \cup {n}
                  /\ loc' = [loc EXCEPT ![t].tmp = n, ![t].path = n,
                                        ![t].text = r.text,
                                        ![t].events = <<"create">>]
                  /\ pc' = [pc EXCEPT ![t] = "synthesize"]
                  /\ out' = out
    /\ UNCHANGED <<installer, svc, proc, main, model, tts, src_lang, calls>>

\* The one tts_to_file call, then send_file captures the output file; an
\* exception of either is answered by the inner except clause.
TtsSynthesize(t) ==
    /\ svc = "tts" /\ pc[t] = "synthesize"
    /\ calls' = [calls EXCEPT ![t] =
         Append(@, TtsCall(loc[t].text, req[t].speaker_wav, req[t].speaker,
                           MapGet(TTS_LANGUAGE_MAP,
                                  DataGet(req[t].language_id, "en"), "en"),
                           loc[t].path, DataGet(req[t].speed, "1.0"), tts))]
    /\ \E ok \in BOOLEAN :
         loc' = [loc EXCEPT
                   ![t].model_exc = IF ok THEN "" ELSE "model error",
                   ![t].events = IF ok THEN @ \o <<"tts_to_file", "send_file">>
                                 ELSE Append(@, "tts_to_file"),
                   ![t].pending =
                   IF ok THEN RespAudio(loc[t].path)
                   ELSE Resp500("TTS generation failed", "model error")]
    /\ pc' = [pc EXCEPT ![t] = "finally"]
    /\ UNCHANGED <<installer, svc, proc, main, model, tts, fs, src_lang, req, out>>

\* A handler without the finally block: the pending return takes effect.
TtsFinallySkipped(t) ==
    /\ svc = "tts" /\ pc[t] = "finally"
    /\ Return(t, loc[t].pending)
    /\ UNCHANGED <<installer, svc, proc, main, model, tts, fs, src_lang, req, loc, calls>>

\* finally: os.unlink(output_path); then the pending return takes effect.
TtsFinally(t) ==
    /\ svc = "tts" /\ pc[t] = "finally"
    /\ fs' = Unlink(fs, loc[t].path)
    /\ loc' = [loc EXCEPT ![t].events = Append(@, "unlink")]
    /\ Return(t, loc[t].pending)
    /\ UNCHANGED <<installer, svc, proc, main, model, tts, src_lang, req, calls>>

\* ---------------------------------------------------------------------
\* Translation: POST /api/translate, POST /api/detect
\* ---------------------------------------------------------------------

\* A detect_language that hands on whatever the detector returned.
detect_language_unmapped(text, d) ==
    IF text \in {Null, ""} \/ d = "<raise>" THEN "en" ELSE d

\* detect_language(text) when langdetect's detect does d: every exception
\* inside (the slice of None in the log line, detect on "") gives "en".
detect_language(text, d) ==
    IF text \in {Null, ""} \/ d = "<raise>" THEN "en"
    ELSE IF d \in DOMAIN LANGUAGE_MAP THEN LANGUAGE_MAP[d]
    ELSE IF d \in LanguageMapValues THEN d
    ELSE "en"

\* What the call detect(text) inside detect_language does: it is not
\* reached for None (the log line raises first) and raises on "".
DetectCall(text, d) ==
    IF text = Null THEN Unset ELSE IF text = "" THEN "<raise>" ELSE d

\* A translate() that runs the detection whatever the request says.
AutoDetectAlways(source_language, text, d) == detect_language(text, d)

\* if not source_lang: source_lang = detect_language(text)
\* The value detect_language returned, Unset when it was not called.
AutoDetect(source_language, text, d) ==
    IF Truthy(source_language) THEN Unset ELSE detect_language(text, d)

\* The source language translate() settles on.
SourceLang(source_language, text, d) ==
    MapGet(LANGUAGE_MAP,
           IF AutoDetect(source_language, text, d) = Unset THEN source_language
           ELSE AutoDetect(source_language, text, d),
           "en")

\* The target language translate() settles on.
TargetLang(target_language) ==
    MapGet(LANGUAGE_MAP, DataGet(target_language, "en"), "en")

\* The success body of translate(); processing_time is left out.
TranslateBody(text, translation, source, target) ==
    [original_text |-> text, translated_text |-> translation,
     source_language |-> source, target_language |-> target]

\* A translate_text without the same-language return.
SameLanguageNever(source, target) == FALSE

\* if source_lang == target_lang: return text
SameLanguage(source, target) == source = target

\* translate() up to the call of translate_text.
TrBegin(t) ==
    /\ svc = "translate" /\ proc = "serving" /\ pc[t] = "idle"
    /\ \E r \in TranslateRequests, d \in DetectResults :
        /\ req' = [req EXCEPT ![t] = r]
        /\ IF GetJsonRaises(r.body) # ""
             THEN /\ Return(t, OuterExcept("Translation failed",
                                           GetJsonRaises(r.body)))
                  /\ loc' = loc
           ELSE IF RequireText(r) = "reject"
             THEN /\ Return(t, Resp400("Text is required"))
                  /\ loc' = loc
           ELSE IF RequireText(r) = "raise"
             THEN /\ Return(t, OuterExcept("Translation failed", "TypeError"))
                  /\ loc' = loc
           ELSE /\ loc' = [loc EXCEPT
                      ![t].text = r.text,
                      ![t].detected = AutoDetect(r.source_language, r.text, d),
                      ![t].detect =
                          IF AutoDetect(r.source_language, r.text, d) = Unset
                            THEN Unset ELSE DetectCall(r.text, d),
                      ![t].source_lang = SourceLang(r.source_language, r.text, d),
                      ![t].target_lang = TargetLang(r.target_language)]
                /\ IF SliceRaises(r.text)
                     THEN Return(t, OuterExcept("Translation failed", "TypeError"))
                     ELSE /\ pc' = [pc EXCEPT ![t] = "translate_text"]
                          /\ out' = out
    /\ UNCHANGED <<installer, svc, proc, main, model, tts, fs, src_lang, calls>>

\* translate_text: the model check, the same-language return, and the
\* assignment tokenizer.src_lang = source_lang.
TrTranslateText(t) ==
    /\ svc = "translate" /\ pc[t] = "translate_text"
    /\ IF model = Null
         THEN /\ Return(t, OuterExcept("Translation failed", "Model not loaded"))
              /\ src_lang' = src_lang
       ELSE IF SameLanguage(loc[t].source_lang, loc[t].target_lang)
         THEN /\ Return(t, RespJson(TranslateBody(loc[t].text, loc[t].text,
                                loc[t].source_lang, loc[t].target_lang)))
              /\ src_lang' = src_lang
       ELSE /\ src_lang' = loc[t].source_lang
            /\ pc' = [pc EXCEPT ![t] = "encode"]
            /\ out' = out
    /\ UNCHANGED <<installer, svc, proc, main, model, tts, fs, req, loc, calls>>

\* encoded = tokenizer(text, ...): encodes under tokenizer.src_lang as it
\* is at the time of the call.
TrEncode(t) ==
    /\ svc = "translate" /\ pc[t] = "encode"
    /\ calls' = [calls EXCEPT ![t] =
                   Append(@, [fn |-> "tokenizer", text |-> loc[t].text,
                              lang |-> src_lang])]
    /\ loc' = [loc EXCEPT ![t].enc = src_lang]
    /\ pc' = [pc EXCEPT ![t] = "generate"]
    /\ UNCHANGED <<installer, svc, proc, main, model, tts, fs, src_lang, req, out>>

\* model.generate(..., forced_bos_token_id=get_lang_id(target_lang)) and the
\* decode; an exception is re-raised to translate()'s except clause.
TrGenerate(t) ==
    /\ svc = "translate" /\ pc[t] = "generate"
    /\ calls' = [calls EXCEPT ![t] =
                   Append(@, [fn |-> "generate", text |-> loc[t].text,
                              lang |-> loc[t].target_lang])]
    /\ \/ /\ \E o \in ModelOutputs :
               Return(t, RespJson(TranslateBody(loc[t].text, o,
                             loc[t].source_lang, loc[t].target_lang)))
          /\ loc' = [loc EXCEPT ![t].model_exc = ""]
       \/ /\ Return(t, OuterExcept("Translation failed", "model error"))
          /\ loc' = [loc EXCEPT ![t].model_exc = "model error"]
    /\ UNCHANGED <<installer, svc, proc, main, model, tts, fs, src_lang, req>>

\* A detect_lang() that fills "language" with the default instead of
\* the detected code.
DetectBodyDefaultLanguage(text, detected) ==
    [text |-> text, language |-> "en", detected_language |-> detected,
     confidence |-> "0.8"]

\* The success body of detect_lang().
DetectBody(text, detected) ==
    [text |-> text, language |-> detected, detected_language |-> detected,
     confidence |-> "0.8"]

\* detect_lang(): the whole handler.
TrDetect(t) ==
    /\ svc = "translate" /\ proc = "serving" /\ pc[t] = "idle"
    /\ \E r \in DetectRequests, d \in DetectResults :
        /\ req' = [req EXCEPT ![t] = r]
        /\ IF GetJsonRaises(r.body) # ""
             THEN /\ Return(t, OuterExcept("Language detection failed",
                                           GetJsonRaises(r.body)))
                  /\ loc' = loc
           ELSE IF RequireText(r) = "reject"
             THEN /\ Return(t, Resp400("Text is required"))
                  /\ loc' = loc
           ELSE IF RequireText(r) = "raise"
             THEN /\ Return(t, OuterExcept("Language detection failed",
                                           "TypeError"))
                  /\ loc' = loc
           ELSE /\ loc' = [loc EXCEPT
                      ![t].text = r.text,
                      ![t].detect = DetectCall(r.text, d),
                      ![t].detected = detect_language(r.text, d)]
                /\ Return(t, RespJson(DetectBody(r.text,
                                                 detect_language(r.text, d))))
    /\ UNCHANGED <<installer, svc, proc, main, model, tts, fs, src_lang, calls>>

\* ---------------------------------------------------------------------
\* GET /health
\* ---------------------------------------------------------------------

\* LANGUAGE_MAP of the server install-m2m100.py writes to disk: the
\* canonical codes only, no regional aliases.
INSTALLED_LANGUAGE_MAP == [k \in M2M100Canonical |-> k]

\* detect_language(text) of the written server when detect does d: one
\* table lookup, any exception (detect on None or "") gives "en".
installed_detect_language(text, d) ==
    IF text \in {Null, ""} \/ d = "<raise>" THEN "en"
    ELSE MapGet(INSTALLED_LANGUAGE_MAP, d, "en")

\* source_lang of the written server's translate()
InstalledSourceLang(source_language, text, d) ==
    MapGet(INSTALLED_LANGUAGE_MAP,
           IF Truthy(source_language) THEN source_language
           ELSE installed_detect_language(text, d), "en")

\* target_lang of the written server's translate()
InstalledTargetLang(target_language) ==
    MapGet(INSTALLED_LANGUAGE_MAP, DataGet(target_language, "en"), "en")

\* The success body of the written server's detect_lang()
InstalledDetectBody(text, detected) ==
    [text |-> text, detected_language |-> detected]

HealthReq ==
    [endpoint |-> "health", body |-> "<none>", audio |-> Unset, language |-> Unset]

\* "service" in the health body of each server.
ServiceName(s) ==
    CASE s = "stt" -> "Whisper STT"
      [] s = "tts" -> "coqui-tts"
      [] s = "translate" -> "m2m100-translation"

\* A health check that answers 503 while the model is not loaded.
health_check_gated(s, m) ==
    IF m = Null
      THEN [status |-> 503, kind |-> "error", error |-> "Model not loaded",
            exc |-> "", data |-> NoData]
    ELSE IF s = "translate"
      THEN RespJson([status |-> "healthy", service |-> ServiceName(s),
                     model_loaded |-> TRUE, device |-> "cpu"])
    ELSE RespJson([status |-> "healthy", service |-> ServiceName(s)])

\* health() / health_check(): the response; device is None until
\* load_model has run.
health_check(s, m) ==
    IF s = "translate"
      THEN RespJson([status |-> "healthy", service |-> ServiceName(s),
                     model_loaded |-> (m # Null),
                     device |-> IF m = Null THEN Null ELSE "cpu"])
    ELSE RespJson([status |-> "healthy", service |-> ServiceName(s)])

\* GET /health on any of the three servers.
Health(t) ==
    /\ proc = "serving" /\ pc[t] = "idle"
    /\ req' = [req EXCEPT ![t] = HealthReq]
    /\ Return(t, health_check(svc, model))
    /\ UNCHANGED <<installer, svc, proc, main, model, tts, fs, src_lang, loc, calls>>

\* ---------------------------------------------------------------------
\* Specification
\* ---------------------------------------------------------------------

Next ==
    \/ SttLoadModel
    \/ TtsLoadModel
    \/ TrMain
    \/ TrImported
    \/ \E t \in Threads : SttBegin(t)
    \/ \E t \in Threads : SttTranscribe(t)
    \/ \E t \in Threads : SttFinally(t)
    \/ \E t \in Threads : TtsBegin(t)
    \/ \E t \in Threads : TtsSynthesize(t)
    \/ \E t \in Threads : TtsFinally(t)
    \/ \E t \in Threads : TrBegin(t)
    \/ \E t \in Threads : TrTranslateText(t)
    \/ \E t \in Threads : TrEncode(t)
    \/ \E t \in Threads : TrGenerate(t)
    \/ \E t \in Threads : TrDetect(t)
    \/ \E t \in Threads : Health(t)
    \/ \E t \in Threads : Reply(t)

Spec == Init /\ [][Next]_vars

\* ---------------------------------------------------------------------
\* The installers (install-voice-services.py, install-m2m100.py)
\*
\* disk.requirements: the blocks of voice-requirements.txt, in file order;
\* disk.servers: the server scripts written; disk.bat, disk.sh: the
\* services start-voice-services.bat / .sh start (empty: no such file).
\* One installer runs at a time; each step is a function main() calls.
\* ---------------------------------------------------------------------

VoiceServices == {"stt", "tts"}

AllServices == {"stt", "tts", "translate"}

\* main() returns (or the process exits): the run is over.
EndRun(how) ==
    /\ inst' = "idle"
    /\ runs' = Append(runs, how)

\* install-voice-services.py main(): check_python_version() passes
VoiceMain ==
    /\ Len(runs) < MaxRuns
    /\ inst = "idle"
    /\ inst' = "voice.create_requirements"
    /\ UNCHANGED <<disk, runs, server>>

\* open("voice-requirements.txt", "w"): the file holds the voice block only
create_requirements ==
    /\ inst = "voice.create_requirements"
    /\ disk' = [disk EXCEPT !.requirements = <<"voice">>]
    /\ inst' = "voice.install_packages"
    /\ UNCHANGED <<runs, server>>

\* pip failures are printed and passed over
voice_install_packages ==
    /\ inst = "voice.install_packages"
    /\ inst' = "voice.install_whisper"
    /\ UNCHANGED <<disk, runs, server>>

\* run_command(..., check=True): a failing model download is sys.exit(1)
install_whisper ==
    /\ inst = "voice.install_whisper"
    /\ \E ok \in BOOLEAN :
         IF ok THEN inst' = "voice.install_coqui_tts" /\ runs' = runs
         ELSE EndRun("voice-aborted")
    /\ UNCHANGED <<disk, server>>

\* run_command(..., check=False): failures are warnings
install_coqui_tts ==
    /\ inst = "voice.install_coqui_tts"
    /\ inst' = "voice.create_whisper_server"
    /\ UNCHANGED <<disk, runs, server>>

create_whisper_server ==
    /\ inst = "voice.create_whisper_server"
    /\ disk' = [disk EXCEPT !.servers = @ \cup {"stt"}]
    /\ inst' = "voice.create_coqui_server"
    /\ UNCHANGED <<runs, server>>

create_coqui_server ==
    /\ inst = "voice.create_coqui_server"
    /\ disk' = [disk EXCEPT !.servers = @ \cup {"tts"}]
    /\ inst' = "voice.create_startup_scripts"
    /\ UNCHANGED <<runs, server>>

\* Both scripts are opened with "w" and start Whisper and Coqui; the last
\* step of main().
create_startup_scripts ==
    /\ inst = "voice.create_startup_scripts"
    /\ disk' = [disk EXCEPT !.bat = VoiceServices, !.sh = VoiceServices]
    /\ EndRun("voice")
    /\ UNCHANGED server

\* install-m2m100.py main(): check_python_version() passes
M2M100Main ==
    /\ Len(runs) < MaxRuns
    /\ inst = "idle"
    /\ inst' = "m2m100.install_packages"
    /\ UNCHANGED <<disk, runs, server>>

\* pip failures are printed and passed over
m2m100_install_packages ==
    /\ inst = "m2m100.install_packages"
    /\ inst' = "m2m100.create_m2m100_server"
    /\ UNCHANGED <<disk, runs, server>>

create_m2m100_server ==
    /\ inst = "m2m100.create_m2m100_server"
    /\ disk' = [disk EXCEPT !.servers = @ \cup {"translate"}]
    /\ inst' = "m2m100.update_requirements"
    /\ UNCHANGED <<runs, server>>

\* An update that opens the requirements file with "w".
update_requirements_replacing ==
    /\ inst = "m2m100.update_requirements"
    /\ disk' = [disk EXCEPT !.requirements = <<"m2m100">>]
    /\ inst' = "m2m100.update_startup_scripts"
    /\ UNCHANGED <<runs, server>>

\* open("voice-requirements.txt", "a"): the M2M100 block goes after
\* whatever the file holds
update_requirements ==
    /\ inst = "m2m100.update_requirements"
    /\ disk' = [disk EXCEPT !.requirements = Append(@, "m2m100")]
    /\ inst' = "m2m100.update_startup_scripts"
    /\ UNCHANGED <<runs, server>>

\* Both scripts are opened with "w" and start the three servers; the last
\* step of main().
update_startup_scripts ==
    /\ inst = "m2m100.update_startup_scripts"
    /\ disk' = [disk EXCEPT !.bat = AllServices, !.sh = AllServices]
    /\ EndRun("m2m100")
    /\ UNCHANGED server

InstallNext ==
    \/ VoiceMain
    \/ create_requirements
    \/ voice_install_packages
    \/ install_whisper
    \/ install_coqui_tts
    \/ create_whisper_server
    \/ create_coqui_server
    \/ create_startup_scripts
    \/ M2M100Main
    \/ m2m100_install_packages
    \/ create_m2m100_server
    \/ update_requirements
    \/ update_startup_scripts

InstallSpec == Init /\ [][InstallNext]_vars

\* ---------------------------------------------------------------------
\* Properties
\* ---------------------------------------------------------------------

\* The handler of thread t has returned.
Done(t) == pc[t] = "done"

\* The response it returned.
Resp(t) == out[t][Len(out[t])]

\* The handler of thread t returns in this step.
Returns(t) == pc[t] # "done" /\ pc'[t] = "done"

JsonService == svc \in {"tts", "translate"}

\* A JSON request that carries a text string (possibly empty).
HasTextString(r) == r.body = "object" /\ r.text \notin {Absent, Null}

\* The required field is missing: no "audio" part; no JSON body, or a JSON
\* body without a "text" key.
MissingRequired(t) ==
    IF svc = "stt" THEN req[t].audio = Absent
    ELSE \/ req[t].body \in {"nojson", "null", "number"}
         \/ req[t].body = "object" /\ req[t].text = Absent

\* C1: a request whose required field is missing is answered 400 and the
\* model is not invoked for it.
C1_MissingField400 ==
    \A t \in Threads :
        Done(t) /\ MissingRequired(t)
            => Resp(t).status = 400 /\ calls[t] = << >>

C3_SttTempFileAlwaysGone ==
    [][\A t \in Threads :
          Returns(t) /\ svc = "stt" /\ loc'[t].tmp # 0
              => loc'[t].tmp \notin fs']_vars

\* dict lookup with the default "en", as the claims state it.
Remapped(code) == IF code \in DOMAIN LANGUAGE_MAP THEN LANGUAGE_MAP[code] ELSE "en"

\* A /api/translate request with a text string whose source and target
\* language are the same after remapping (the source declared, or detected).
SameLanguageRequest(t) ==
    /\ svc = "translate" /\ req[t].endpoint = "translate"
    /\ HasTextString(req[t])
    /\ \/ /\ Truthy(req[t].source_language)
          /\ Remapped(req[t].source_language)
               = Remapped(DataGet(req[t].target_language, "en"))
       \/ /\ loc[t].source_lang # Unset
          /\ loc[t].source_lang = loc[t].target_lang

C5_Unloaded503 ==
    \A t \in Threads :
        /\ svc = "translate" /\ proc = "serving" /\ model = Null
        /\ Done(t) /\ req[t].endpoint = "translate"
        /\ HasTextString(req[t]) /\ req[t].text # ""
        => Resp(t).status = 503

\* C6: the tokenizer encodes the text of each translation request under
\* that request's own source language.
C6_EncodedUnderOwnSource ==
    \A t \in Threads :
        loc[t].enc # Unset => loc[t].enc = loc[t].source_lang

\* C7: a handler that has returned produced exactly one response of its
\* own, none before it returns, and an exception raised on the way is
\* answered with a JSON error body; nothing leaves the handler unhandled.
C7_HandlerAlwaysResponds ==
    \A t \in Threads :
        /\ ~Done(t) => out[t] = << >>
        /\ Done(t) =>
             /\ Len(out[t]) = 1
             /\ Resp(t).kind # "unhandled"
             /\ Resp(t).exc # "" => Resp(t).kind = "error" /\ Resp(t).error # ""

C7_Witness ==
    \E t \in Threads :
        /\ Done(t) /\ Len(out[t]) = 1
        /\ Resp(t).exc \in {"save error", "415 Unsupported Media Type", "TypeError"}
        /\ Resp(t).kind = "error"

\* The required field is present but empty: "text" is "" or null; the audio
\* part has an empty filename.
EmptyRequired(t) ==
    IF svc = "stt" THEN req[t].audio = ""
    ELSE /\ req[t].body = "object" /\ req[t].text \in {"", Null}
         /\ svc = "translate" => req[t].endpoint = "translate"

\* C8: a request whose required field is present but empty is answered 400
\* with an error message.
C8_EmptyField400 ==
    \A t \in Threads :
        Done(t) /\ EmptyRequired(t)
            => Resp(t).status = 400 /\ Resp(t).kind = "error" /\ Resp(t).error # ""

\* C9: a request to a JSON endpoint on which get_json raises (no JSON
\* content type, unparsable body) is answered 400 with an error body.
C9_Malformed400 ==
    \A t \in Threads :
        Done(t) /\ JsonService /\ req[t].body \in {"nojson", "malformed"}
            => Resp(t).status = 400 /\ Resp(t).kind = "error"

\* Given: present, not null and not empty.
Given(v) == v # Absent /\ v # Null /\ v # ""

\* C10: a valid text-to-speech request makes exactly one tts_to_file call:
\* with speaker_wav (and no speaker) if speaker_wav is given; else with the
\* given speaker; else with the first element of a non-empty speakers list;
\* else with neither argument.
C10_TtsModePrecedence ==
    \A t \in Threads :
        svc = "tts" /\ Done(t) /\ HasTextString(req[t]) =>
            /\ Len(calls[t]) = 1
            /\ LET c == calls[t][1]
                   r == req[t]
               IN  /\ c.fn = "tts_to_file" /\ c.text = r.text
                   /\ IF Given(r.speaker_wav)
                        THEN c.speaker_wav = r.speaker_wav /\ c.speaker = Absent
                      ELSE IF Given(r.speaker)
                        THEN c.speaker = r.speaker /\ c.speaker_wav = Absent
                      ELSE IF tts.has /\ tts.list # << >>
                        THEN c.speaker = Head(tts.list) /\ c.speaker_wav = Absent
                      ELSE c.speaker = Absent /\ c.speaker_wav = Absent

C10_Witness ==
    \E t \in Threads :
        /\ svc = "tts" /\ Done(t) /\ HasTextString(req[t])
        /\ Given(req[t].speaker_wav) /\ Given(req[t].speaker)
        /\ Len(calls[t]) = 1
        /\ calls[t][1].speaker_wav = "ref.wav" /\ calls[t][1].speaker = Absent

\* The source language was left out: absent, null or empty.
SourceOmitted(r) == r.source_language \in {Absent, Null, ""}

\* A /api/translate request that got past the "text" check.
TranslateInFlight(t) ==
    /\ svc = "translate" /\ pc[t] # "idle" /\ req[t].endpoint = "translate"
    /\ req[t].body = "object" /\ req[t].text # Absent

\* C11: in translate() the detection runs exactly when source_language is
\* omitted; a supplied source is looked up in LANGUAGE_MAP (default "en"),
\* a detected one goes through the same lookup, as the target does.
C11_DetectionIffOmitted ==
    \A t \in Threads :
        TranslateInFlight(t) =>
            /\ (loc[t].detected # Unset) <=> SourceOmitted(req[t])
            /\ ~SourceOmitted(req[t])
                 => loc[t].source_lang = Remapped(req[t].source_language)
            /\ SourceOmitted(req[t])
                 => loc[t].source_lang = Remapped(loc[t].detected)
            /\ loc[t].target_lang = Remapped(DataGet(req[t].target_language, "en"))

C11_Witness ==
    \E t, u \in Threads :
        /\ TranslateInFlight(t) /\ req[t].source_language = "pt-br"
        /\ loc[t].detected = Unset /\ loc[t].source_lang = "pt"
        /\ TranslateInFlight(u) /\ req[u].source_language = Null
        /\ loc[u].detect = "zh-cn" /\ loc[u].source_lang = "zh"

\* The calls of the request that run the model itself.
ModelCalls(t) == {i \in 1..Len(calls[t]) : calls[t][i].fn # "tokenizer"}

\* C12: the model call is attempted at most once per request; if it raised,
\* the request is answered once, with 500, the exception in the message
\* and no result field.
C12_FailureSurfacedOnce ==
    \A t \in Threads :
        /\ Cardinality(ModelCalls(t)) <= 1
        /\ Cardinality({i \in 1..Len(calls[t]) : calls[t][i].fn = "tokenizer"}) <= 1
        /\ Done(t) /\ loc[t].model_exc = "model error" =>
             /\ Len(out[t]) = 1
             /\ Resp(t).status = 500 /\ Resp(t).kind = "error"
             /\ Resp(t).exc = "model error"
             /\ Resp(t).data = NoData

C12_Witness ==
    \E t \in Threads :
        /\ svc = "translate" /\ Done(t) /\ loc[t].model_exc = "model error"
        /\ Len(calls[t]) = 2 /\ Resp(t).status = 500

\* C13: GET /health answers 200 with status "healthy" and the service
\* name whatever the model handle is; the translation server's
\* model_loaded says whether the handle is set.
C13_HealthAlways200 ==
    \A t \in Threads :
        Done(t) /\ req[t] = HealthReq =>
            /\ Resp(t).status = 200
            /\ Resp(t).data.status = "healthy"
            /\ Resp(t).data.service = ServiceName(svc)
            /\ svc = "translate" => Resp(t).data.model_loaded = (model # Null)

C13_Witness ==
    \E t \in Threads :
        /\ svc = "translate" /\ model = Null /\ Done(t) /\ req[t] = HealthReq
        /\ Resp(t).status = 200 /\ Resp(t).data.model_loaded = FALSE

\* The language code a text-to-speech request asks for.
TtsCode(r) == DataGet(r.language_id, "en")

\* The language code a translation request gives as target.
TargetCode(r) == DataGet(r.target_language, "en")

\* C14: the remapping depends on the code only: a code outside the table
\* gives "en", a key gives its table value, and two requests with the same
\* code get the same language whatever was served in between.
C14_RemapPure ==
    /\ \A t \in Threads :
         /\ svc = "tts" /\ calls[t] # << >> =>
              calls[t][1].language =
                  IF TtsCode(req[t]) \in DOMAIN TTS_LANGUAGE_MAP
                    THEN TTS_LANGUAGE_MAP[TtsCode(req[t])] ELSE "en"
         /\ TranslateInFlight(t) =>
              loc[t].target_lang =
                  IF TargetCode(req[t]) \in DOMAIN LANGUAGE_MAP
                    THEN LANGUAGE_MAP[TargetCode(req[t])] ELSE "en"
    /\ \A t, u \in Threads :
         /\ svc = "tts" /\ calls[t] # << >> /\ calls[u] # << >>
            /\ TtsCode(req[t]) = TtsCode(req[u])
              => calls[t][1].language = calls[u][1].language
         /\ TranslateInFlight(t) /\ TranslateInFlight(u)
            /\ TargetCode(req[t]) = TargetCode(req[u])
              => loc[t].target_lang = loc[u].target_lang

C14_Witness ==
    \E t, u \in Threads :
        /\ t # u /\ svc = "tts" /\ Done(t) /\ pc[u] = "finally"
        /\ calls[t] # << >> /\ calls[u] # << >>
        /\ req[t].language_id = "xx" /\ req[u].language_id = "xx"
        /\ calls[t][1].language = "en" /\ calls[u][1].language = "en"

\* A /api/detect request that got past the "text" check.
DetectAnswered(t) ==
    /\ svc = "translate" /\ Done(t) /\ req[t].endpoint = "detect"
    /\ req[t].body = "object" /\ req[t].text # Absent

\* C15: /api/detect answers with the code detect_language gives, the one
\* translate() gets for the same text and detector result when the source
\* is omitted; "language" equals "detected_language", confidence is 0.8.
C15_DetectEndpoint ==
    \A t \in Threads :
        DetectAnswered(t) =>
            /\ Resp(t).status = 200
            /\ Resp(t).data.language = Resp(t).data.detected_language
            /\ Resp(t).data.detected_language = loc[t].detected
            /\ Resp(t).data.confidence = "0.8"
            /\ \A u \in Threads :
                 /\ TranslateInFlight(u) /\ loc[u].detected # Unset
                 /\ req[u].text = req[t].text /\ loc[u].detect = loc[t].detect
                 => loc[u].detected = Resp(t).data.language

C15_Witness ==
    \E t, u \in Threads :
        /\ DetectAnswered(t) /\ TranslateInFlight(u)
        /\ req[t].text = "Hello" /\ req[u].text = "Hello"
        /\ loc[t].detect = "zh-cn" /\ loc[u].detect = "zh-cn"
        /\ Resp(t).data.language = "zh" /\ loc[u].detected = "zh"

\* A speech-to-text request that passed validation, its upload saved, and
\* the model call made.
SttTranscribed(t) ==
    /\ svc = "stt" /\ pc[t] \in {"finally", "done"}
    /\ req[t].audio \notin {Absent, "", Unset} /\ loc[t].path # 0

\* C16 as stated: every speech-to-text request that passed validation has
\* called the transcription, with fp16 False and the language option
\* exactly for a non-empty hint, by the time it is answered.
C16_EveryValidTranscribed ==
    \A t \in Threads :
        /\ svc = "stt" /\ Done(t)
        /\ req[t].audio \notin {Absent, "", Unset}
        => /\ Len(calls[t]) = 1
           /\ calls[t][1].options.fp16 = FALSE
           /\ calls[t][1].options.language =
                IF Given(req[t].language) THEN req[t].language ELSE Absent

\* C16, amended to the requests whose upload was saved: transcription is called once, with fp16 False and with the language
\* option exactly when the request gave a non-empty hint; the success body
\* has the fields text, language and segments and no other.
C16_SttOptions ==
    \A t \in Threads :
        SttTranscribed(t) =>
            /\ Len(calls[t]) = 1
            /\ calls[t][1].options.fp16 = FALSE
            /\ calls[t][1].options.language =
                 IF Given(req[t].language) THEN req[t].language ELSE Absent
            /\ Done(t) /\ Resp(t).status = 200
                 => DOMAIN Resp(t).data = {"text", "language", "segments"}

C16_Witness ==
    \E t, u \in Threads :
        /\ SttTranscribed(t) /\ Done(t) /\ Resp(t).status = 200
        /\ req[t].language = "" /\ calls[t][1].options.language = Absent
        /\ SttTranscribed(u) /\ req[u].language = "pt"
        /\ calls[u][1].options.language = "pt"

\* Position of the first e in the sequence s, 0 when there is none.
Pos(s, e) ==
    IF \E i \in 1..Len(s) : s[i] = e
      THEN CHOOSE i \in 1..Len(s) : s[i] = e /\ \A j \in 1..(i - 1) : s[j] # e
      ELSE 0

\* C17: a successful text-to-speech request creates its file, has the
\* model write it, captures the payload with send_file and unlinks the
\* file, in this order, before it returns; for every request the unlink
\* comes after the capture and before the return.
C17_TtsEventOrder ==
    \A t \in Threads :
        svc = "tts" =>
            /\ Done(t) /\ Resp(t).kind = "audio"
                 => loc[t].events = <<"create", "tts_to_file", "send_file", "unlink">>
            /\ Pos(loc[t].events, "unlink") # 0
                 => Pos(loc[t].events, "send_file") < Pos(loc[t].events, "unlink")
            /\ Done(t) /\ loc[t].tmp # 0
                 => Pos(loc[t].events, "unlink") = Len(loc[t].events)

C17_Witness ==
    \E t \in Threads :
        /\ svc = "tts" /\ Done(t) /\ Resp(t).kind = "audio"
        /\ loc[t].events = <<"create", "tts_to_file", "send_file", "unlink">>

\* C18: a server run as a script serves only after its model has loaded;
\* when the load fails the process ends and no request is ever handled.
C18_NoServingWithoutModel ==
    main =>
        /\ proc = "serving" => model = "loaded"
        /\ \A t \in Threads : pc[t] # "idle" => model = "loaded"
        /\ proc = "dead" => \A t \in Threads : pc[t] = "idle" /\ out[t] = << >>

C18_Witness ==
    /\ svc = "translate" /\ main /\ proc = "dead" /\ model = Null
    /\ \A t \in Threads : pc[t] = "idle"

\* C19: the server written by install-m2m100.py and the repository's
\* server resolve the same request, under the same detector output, to
\* the same source and target language in the success body, and their
\* /api/detect success bodies have the same code and the same fields.
C19_InstalledServerAgrees ==
    \A t \in Threads :
        /\ TranslateInFlight(t) /\ Done(t) /\ Resp(t).status = 200 =>
             /\ Resp(t).data.source_language =
                  InstalledSourceLang(req[t].source_language, req[t].text,
                                      loc[t].detect)
             /\ Resp(t).data.target_language =
                  InstalledTargetLang(req[t].target_language)
        /\ DetectAnswered(t) /\ Resp(t).status = 200 =>
             /\ Resp(t).data.detected_language =
                  installed_detect_language(req[t].text, loc[t].detect)
             /\ DOMAIN Resp(t).data =
                  DOMAIN InstalledDetectBody(req[t].text, loc[t].detected)

\* Codes a request or the detector can bring, in the table or not.
Codes == DOMAIN LANGUAGE_MAP \cup LanguageMapValues \cup {"xx", "tl", Null, ""}

\* C20: remapping through LANGUAGE_MAP twice gives what remapping once
\* gives, for every code; so a detected language, remapped in
\* detect_language and again in translate(), keeps the detected code.
C20_RemapIdempotent ==
    /\ \A c \in Codes :
         MapGet(LANGUAGE_MAP, MapGet(LANGUAGE_MAP, c, "en"), "en")
           = MapGet(LANGUAGE_MAP, c, "en")
    /\ \A v \in LanguageMapValues :
         v \in DOMAIN LANGUAGE_MAP /\ LANGUAGE_MAP[v] = v
    /\ \A t \in Threads :
         TranslateInFlight(t) /\ loc[t].detected # Unset
           => loc[t].source_lang = loc[t].detected

C20_Witness ==
    \E t \in Threads :
        /\ TranslateInFlight(t) /\ Done(t) /\ loc[t].detect = "zh-cn"
        /\ loc[t].detected = "zh" /\ loc[t].source_lang = "zh"

\* A request in which detect_language was called: /api/detect past the
\* "text" check, or /api/translate with the source left out.
DetectionRan(t) ==
    /\ svc = "translate" /\ pc[t] # "idle" /\ req[t] # HealthReq
    /\ req[t].body = "object" /\ req[t].text # Absent
    /\ loc[t].detected # Unset

\* C21: detect_language never raises and returns a value of LANGUAGE_MAP:
\* the table value of the detected code, and "en" when the detector raised
\* or gave a code outside the table; /api/detect with a "text" key is
\* never answered with 500.
C21_DetectTotal ==
    \A t \in Threads :
        /\ DetectionRan(t) =>
             /\ loc[t].detected \in LanguageMapValues
             /\ loc[t].detected =
                  IF loc[t].detect \in DOMAIN LANGUAGE_MAP
                    THEN LANGUAGE_MAP[loc[t].detect] ELSE "en"
        /\ DetectAnswered(t) => Resp(t).status = 200 /\ DetectionRan(t)

C21_Witness ==
    \E t, u \in Threads :
        /\ DetectAnswered(t) /\ loc[t].detect = "<raise>" /\ req[t].text = "Hello"
        /\ Resp(t).status = 200 /\ Resp(t).data.language = "en"
        /\ DetectAnswered(u) /\ loc[u].detect = "tl"
        /\ Resp(u).status = 200 /\ Resp(u).data.language = "en"

\* C22: a speech-to-text or text-to-speech handler that returns 400 has
\* left the set of files as it found it and created no temporary file.
C22_RejectedLeavesFiles ==
    [][\A t \in Threads :
         /\ svc \in {"stt", "tts"} /\ Returns(t)
         /\ out'[t][Len(out'[t])].status = 400
         => fs' = fs /\ loc'[t].tmp = 0 /\ calls'[t] = << >>]_vars

C22_Witness ==
    \E t, u \in Threads :
        /\ svc = "stt" /\ Done(t) /\ Resp(t).status = 400 /\ loc[t].tmp = 0
        /\ pc[u] = "transcribe" /\ fs = {loc[u].tmp}

\* Every installer run so far went through all its steps.
AllRunsCompleted == \A i \in 1..Len(runs) : runs[i] # "voice-aborted"

\* The number of install-m2m100.py runs in a row at the end of runs.
M2M100RunsInARow ==
    CHOOSE n \in 0..Len(runs) :
        /\ \A i \in (Len(runs) - n + 1)..Len(runs) : runs[i] = "m2m100"
        /\ n < Len(runs) => runs[Len(runs) - n] # "m2m100"

\* The M2M100 blocks in voice-requirements.txt.
M2M100Blocks ==
    {i \in 1..Len(disk.requirements) : disk.requirements[i] = "m2m100"}

\* C23: after any sequence of installer runs that went through all their
\* steps, both startup scripts start the translation server, and the
\* requirements file has the M2M100 block, exactly when the last run was
\* install-m2m100.py; n such runs in a row leave n copies of the block.
C23_LastInstallerDecides ==
    inst = "idle" /\ AllRunsCompleted =>
        /\ ("translate" \in disk.bat /\ "translate" \in disk.sh)
             <=> M2M100RunsInARow > 0
        /\ ("translate" \in disk.bat \/ "translate" \in disk.sh)
             <=> M2M100RunsInARow > 0
        /\ M2M100Blocks # {} <=> M2M100RunsInARow > 0
        /\ Cardinality(M2M100Blocks) = M2M100RunsInARow

C23_Witness ==
    /\ inst = "idle" /\ runs = <<"voice", "m2m100", "m2m100">>
    /\ disk.requirements = <<"voice", "m2m100", "m2m100">>
    /\ disk.sh = AllServices /\ disk.bat = AllServices

====
